---- MODULE Spec2Model ----
(***************************************************************************)
(* Model of src/app.py: the Streamlit script that signs a quote request    *)
(* for the ICICI Breeze API (fetch_market_data_icici), interprets the      *)
(* response envelope, renders the selected view and forwards the payload   *)
(* to the LLM (ask_llm).                                                   *)
(*                                                                         *)
(* Python values are records tagged with their type in field t, so that    *)
(* 200, 200.0 and "200" stay different values, as they are in Python.      *)
(* Strings are TLA+ strings; every non-ASCII glyph of the source's texts    *)
(* is written as its Python escape (\u274c, \u20b9, \U0001f4ca,            *)
(* \u2139\ufe0f, \U0001f916), followed by the space the source puts after  *)
(* it where there is one.                                                  *)
(***************************************************************************)
EXTENDS Integers, Sequences, FiniteSets, TLC

VARIABLES
    apiKey,          \* BREEZE_API_KEY
    apiSecret,       \* BREEZE_API_SECRET
    jsonErrIsReqExc, \* the installed requests raises its own JSONDecodeError
    pc,              \* position of the script run
    sessionToken,    \* icici_session_token
    stock,           \* selected_stock
    exchange,        \* selected_exchange
    dataType,        \* data_type
    clockReads,      \* readings taken by datetime.utcnow() in this run
    checksums,       \* digests computed by generate_checksum in this run
    httpRequests,    \* requests handed to requests.get in this run
    outcome,         \* what requests.get did in this run (none before it)
    fetchKind,       \* which path fetch_market_data_icici took
    marketData,      \* market_data, the value the fetch returned
    errors,          \* st.error messages of this run, in order
    shown,           \* other widgets rendered in this run, in order
    raised,          \* exception that left the script uncaught ("" if none)
    llmRequests,     \* payloads posted by ask_llm in this run
    insight,         \* value ask_llm returned
    timestamp        \* timestamp formatted in this run

vars == <<apiKey, apiSecret, jsonErrIsReqExc, pc, sessionToken, stock, exchange,
          dataType, clockReads, checksums, httpRequests, outcome, fetchKind,
          marketData, errors, shown, raised, llmRequests, insight, timestamp>>

----------------------------------------------------------------------------
(* Python values *)

PyNone == [t |-> "none"]
PyInt(n) == [t |-> "int", v |-> n]
\* a non-negative float with one decimal digit: whole + tenths/10
PyFloat(w, d) == [t |-> "float", whole |-> w, tenths |-> d]
PyStr(s) == [t |-> "str", v |-> s]
PyBool(b) == [t |-> "bool", v |-> b]
PyList(s) == [t |-> "list", v |-> s]
PyDict(r) == [t |-> "dict", v |-> r]
EmptyDict == [t |-> "dict", v |-> <<>>]

\* bool(x)
Truthy(x) ==
    CASE x.t = "none" -> FALSE
      [] x.t = "int" -> x.v # 0
      [] x.t = "float" -> x.whole # 0 \/ x.tenths # 0
      [] x.t = "str" -> x.v # ""
      [] x.t = "bool" -> x.v
      [] x.t = "list" -> Len(x.v) > 0
      [] x.t = "dict" -> DOMAIN x.v # {}

IsNumber(x) == x.t \in {"int", "float", "bool"}

\* a == b for the scalar right-hand sides the script compares with
PyEqInt(x, n) ==
    CASE x.t = "int" -> x.v = n
      [] x.t = "float" -> x.whole = n /\ x.tenths = 0
      [] x.t = "bool" -> (IF x.v THEN 1 ELSE 0) = n
      [] OTHER -> FALSE

PyEqStr(x, s) == x.t = "str" /\ x.v = s

\* dict.get(key, default)
DictGet(d, key, default) == IF key \in DOMAIN d.v THEN d.v[key] ELSE default

Digit(d) == SubSeq("0123456789", d + 1, d + 1)

RECURSIVE NatToStr(_)
NatToStr(n) == IF n < 10 THEN Digit(n) ELSE NatToStr(n \div 10) \o Digit(n % 10)

\* "%0<width>d" % n
RECURSIVE Pad(_, _)
Pad(n, width) ==
    IF width = 0 THEN "" ELSE Pad(n \div 10, width - 1) \o Digit(n % 10)

\* format(n, ",") for n >= 0
RECURSIVE Thousands(_)
Thousands(n) ==
    IF n < 1000 THEN NatToStr(n)
    ELSE Thousands(n \div 1000) \o "," \o Pad(n % 1000, 3)

\* str(x) of a scalar, as an f-string interpolates it
PyToStr(x) ==
    CASE x.t = "none" -> "None"
      [] x.t = "int" -> NatToStr(x.v)
      [] x.t = "float" -> NatToStr(x.whole) \o "." \o Digit(x.tenths)
      [] x.t = "str" -> x.v
      [] x.t = "bool" -> IF x.v THEN "True" ELSE "False"

\* f"{x:,}" of a number
PyFormatComma(x) ==
    CASE x.t = "int" -> Thousands(x.v)
      [] x.t = "float" -> Thousands(x.whole) \o "." \o Digit(x.tenths)
      [] x.t = "bool" -> IF x.v THEN "1" ELSE "0"

----------------------------------------------------------------------------
(* Request Signer: body, timestamp, checksum, headers *)

CROSS == "\\u274c "
RUPEE == "\\u20b9"
CHART == "\\U0001f4ca "
INFO == "\\u2139\\ufe0f "
ROBOT == "\\U0001f916 "

STOCKS == {"RELIANCE", "TCS", "INFY", "HDFCBANK", "ICICIBANK"}
\* STOCKS[selected_stock]: every key maps to itself
StockCode(selected) == selected
EXCHANGES == {"NSE", "BSE", "NFO"}
DATA_TYPES == {"LTP", "OHLC", "Volume", "Raw JSON"}
URL == "https://api.icicidirect.com/breezeapi/api/v1/quotes"

\* json.dumps of a str without characters that need escaping
JsonStr(s) == "\"" \o s \o "\""

\* json.dumps of a dict of str values given as <<key, value>> pairs in
\* insertion order, with the given separators
RECURSIVE JsonItems(_, _, _)
JsonItems(items, itemSep, keySep) ==
    IF items = <<>> THEN ""
    ELSE JsonStr(items[1][1]) \o keySep \o JsonStr(items[1][2])
         \o (IF Len(items) > 1 THEN itemSep ELSE "")
         \o JsonItems(Tail(items), itemSep, keySep)

JsonDumpsWith(items, itemSep, keySep) ==
    "{" \o JsonItems(items, itemSep, keySep) \o "}"

\* json.dumps(obj): the default separators are (", ", ": ")
JsonDumps(items) == JsonDumpsWith(items, ", ", ": ")

\* payload_dict
PayloadDict(symbol, exch) ==
    << <<"stock_code", symbol>>, <<"exchange_code", exch>> >>

\* payload = json.dumps(payload_dict)
Payload(symbol, exch) == JsonDumps(PayloadDict(symbol, exch))

\* datetime.isoformat(): the fraction is printed only when microsecond # 0
Isoformat(now) ==
    Pad(now.year, 4) \o "-" \o Pad(now.month, 2) \o "-" \o Pad(now.day, 2)
    \o "T" \o Pad(now.hour, 2) \o ":" \o Pad(now.minute, 2) \o ":"
    \o Pad(now.second, 2)
    \o (IF now.microsecond # 0 THEN "." \o Pad(now.microsecond, 6) ELSE "")

\* s[:n]
Prefix(s, n) == SubSeq(s, 1, IF Len(s) < n THEN Len(s) ELSE n)

\* a variant that rounds the reading to the nearest second
FormatTimestampRounded(now) ==
    Prefix(Isoformat([now EXCEPT !.second =
                        IF now.microsecond >= 500000 /\ @ < 59
                        THEN @ + 1 ELSE @]), 19) \o ".000Z"

\* timestamp = datetime.utcnow().isoformat()[:19] + '.000Z'
FormatTimestamp(now) == Prefix(Isoformat(now), 19) \o ".000Z"

\* hashlib.sha256(data).hexdigest(): the digest is an uninterpreted
\* collision-free function of the bytes hashed
Sha256Hex(data) == "sha256<" \o data \o ">"

\* a variant that hashes the body before the timestamp
generate_checksum_body_first(ts, payload, secret_key) ==
    Sha256Hex(payload \o ts \o secret_key)

generate_checksum(ts, payload, secret_key) ==
    Sha256Hex(ts \o payload \o secret_key)

\* headers of the request
Headers(checksum, ts, api_key, session_token) ==
    [ContentType |-> "application/json",
     XChecksum |-> "token " \o checksum,
     XTimestamp |-> ts,
     XAppKey |-> api_key,
     XSessionToken |-> session_token,
     UserAgent |-> "Mozilla/5.0"]

----------------------------------------------------------------------------
(* Responses of the quote endpoint and their decoding *)

RecordPartial == PyDict([ltp |-> PyFloat(2500, 5), open |-> PyInt(2490)])
RecordFull ==
    PyDict([ltp |-> PyInt(100), open |-> PyInt(99), high |-> PyInt(101),
            low |-> PyInt(98), close |-> PyInt(100),
            previous_close |-> PyInt(97),
            total_quantity_traded |-> PyInt(1234567)])
RecordVolume == PyDict([total_quantity_traded |-> PyStr("1234")])
Envelope200(success) == PyDict([Status |-> PyInt(200), Success |-> success])
\* the text is no JSON document
NotJson == [t |-> "invalid"]

\* response bodies, as the text received
BodyListPartial ==
    "{\"Status\":200,\"Success\":[{\"ltp\":2500.5,\"open\":2490}]}"
BodyObjPartial ==
    "{\"Status\":200,\"Success\":{\"ltp\":2500.5,\"open\":2490}}"
BodyListFull ==
    "{\"Status\":\"200\",\"Success\":[{\"ltp\":100,\"open\":99,\"high\":101,\"low\":98,\"close\":100,\"previous_close\":97,\"total_quantity_traded\":1234567}]}"
BodyObjFull ==
    "{\"Status\":\"200\",\"Success\":{\"ltp\":100,\"open\":99,\"high\":101,\"low\":98,\"close\":100,\"previous_close\":97,\"total_quantity_traded\":1234567}}"
BodyListVolume ==
    "{\"Status\":200,\"Success\":[{\"total_quantity_traded\":\"1234\"}]}"
BodyObjVolume ==
    "{\"Status\":200,\"Success\":{\"total_quantity_traded\":\"1234\"}}"
BodyTwoRecords == "{\"Status\":200,\"Success\":[{\"ltp\":1},{\"ltp\":2}]}"
BodyTextPayload == "{\"Status\":200,\"Success\":\"no data\"}"
BodyInvalidChecksum == "{\"Status\":500,\"Error\":\"Invalid checksum\"}"
BodyStatusOnly == "{\"Status\":500}"
BodyNoStatus == "{\"Error\":\"Session expired\"}"
BodyNoStatusNoError == "{\"Success\":{\"ltp\":100}}"
BodyFloatStatus == "{\"Status\":200.0,\"Success\":{\"ltp\":100}}"
BodyTextStatus == "{\"Status\":\"OK\",\"Success\":{\"ltp\":100}}"
BodyOtherStatus == "{\"Status\":201,\"Success\":{\"ltp\":100},\"Error\":\"\"}"
BodyNullStatus == "{\"Status\":null,\"Error\":\"Bad request\"}"
BodySuccessAbsent == "{\"Status\":200}"
BodySuccessNull == "{\"Status\":200,\"Success\":null}"
BodySuccessEmptyList == "{\"Status\":200,\"Success\":[]}"
BodySuccessEmptyDict == "{\"Status\":\"200\",\"Success\":{}}"
BodyHtml == "<html>Bad Gateway</html>"
BodyEmpty == ""
BodyJsonList == "[{\"Status\":200}]"
BodyJsonNull == "null"

JsonBodies ==
    {BodyListPartial, BodyObjPartial, BodyListFull,
     BodyObjFull, BodyListVolume, BodyObjVolume,
     BodyTwoRecords, BodyTextPayload, BodyInvalidChecksum,
     BodyStatusOnly, BodyNoStatus, BodyNoStatusNoError,
     BodyFloatStatus, BodyTextStatus, BodyOtherStatus,
     BodyNullStatus, BodySuccessAbsent, BodySuccessNull,
     BodySuccessEmptyList, BodySuccessEmptyDict, BodyHtml,
     BodyEmpty, BodyJsonList, BodyJsonNull}

\* json.loads(text) on the bodies above
ParseJSON(text) ==
    CASE text = BodyListPartial ->
           Envelope200(PyList(<<RecordPartial>>))
      [] text = BodyObjPartial ->
           Envelope200(RecordPartial)
      [] text = BodyListFull ->
           PyDict([Status |-> PyStr("200"), Success |-> PyList(<<RecordFull>>)])
      [] text = BodyObjFull ->
           PyDict([Status |-> PyStr("200"), Success |-> RecordFull])
      [] text = BodyListVolume ->
           Envelope200(PyList(<<RecordVolume>>))
      [] text = BodyObjVolume ->
           Envelope200(RecordVolume)
      [] text = BodyTwoRecords ->
           Envelope200(PyList(<<PyDict([ltp |-> PyInt(1)]), PyDict([ltp |-> PyInt(2)])>>))
      [] text = BodyTextPayload ->
           Envelope200(PyStr("no data"))
      [] text = BodyInvalidChecksum ->
           PyDict([Status |-> PyInt(500), Error |-> PyStr("Invalid checksum")])
      [] text = BodyStatusOnly ->
           PyDict([Status |-> PyInt(500)])
      [] text = BodyNoStatus ->
           PyDict([Error |-> PyStr("Session expired")])
      [] text = BodyNoStatusNoError ->
           PyDict([Success |-> PyDict([ltp |-> PyInt(100)])])
      [] text = BodyFloatStatus ->
           PyDict([Status |-> PyFloat(200, 0), Success |-> PyDict([ltp |-> PyInt(100)])])
      [] text = BodyTextStatus ->
           PyDict([Status |-> PyStr("OK"), Success |-> PyDict([ltp |-> PyInt(100)])])
      [] text = BodyOtherStatus ->
           PyDict([Status |-> PyInt(201), Success |-> PyDict([ltp |-> PyInt(100)]), Error |-> PyStr("")])
      [] text = BodyNullStatus ->
           PyDict([Status |-> PyNone, Error |-> PyStr("Bad request")])
      [] text = BodySuccessAbsent ->
           PyDict([Status |-> PyInt(200)])
      [] text = BodySuccessNull ->
           Envelope200(PyNone)
      [] text = BodySuccessEmptyList ->
           Envelope200(PyList(<<>>))
      [] text = BodySuccessEmptyDict ->
           PyDict([Status |-> PyStr("200"), Success |-> EmptyDict])
      [] text = BodyHtml ->
           NotJson
      [] text = BodyEmpty ->
           NotJson
      [] text = BodyJsonList ->
           PyList(<<PyDict([Status |-> PyInt(200)])>>)
      [] text = BodyJsonNull ->
           PyNone

----------------------------------------------------------------------------
(* Quote Client: fetch_market_data_icici *)

\* what requests.get can do with the request: fail in transport, or hand
\* back a response (status code, reason phrase, body text)
TransportFailures ==
    {[kind |-> "ReadTimeout", code |-> 0, reason |-> "", body |-> "",
      exc |-> "HTTPSConnectionPool(host='api.icicidirect.com', port=443): Read timed out. (read timeout=10)"],
     [kind |-> "ConnectionError", code |-> 0, reason |-> "", body |-> "",
      exc |-> "HTTPSConnectionPool(host='api.icicidirect.com', port=443): Max retries exceeded"]}

Response(code, reason, body) ==
    [kind |-> "response", code |-> code, reason |-> reason, body |-> body,
     exc |-> ""]

Outcomes ==
    TransportFailures
    \cup {Response(200, "OK", b) : b \in JsonBodies}
    \cup {Response(201, "Created", BodyObjPartial),
          Response(201, "Created", BodySuccessEmptyList),
          Response(304, "Not Modified", BodyEmpty),
          Response(401, "Unauthorized", BodyInvalidChecksum),
          Response(404, "Not Found", BodyHtml),
          Response(503, "Service Unavailable", BodyHtml)}

\* exception classes, each with the bases the except clauses can match
TransportClasses(kind) ==
    IF kind = "ReadTimeout"
    THEN {"ReadTimeout", "Timeout", "RequestException"}
    ELSE {"ConnectionError", "RequestException"}
HTTPErrorClasses == {"HTTPError", "RequestException"}
\* response.json() raises requests.exceptions.JSONDecodeError, a
\* RequestException, in requests >= 2.27 and json.JSONDecodeError before
JSONDecodeErrorClasses(build) ==
    IF build THEN {"JSONDecodeError", "InvalidJSONError", "RequestException"}
    ELSE {"JSONDecodeError", "ValueError"}

\* type(x).__name__
TypeName(x) ==
    CASE x.t = "none" -> "NoneType"
      [] x.t = "list" -> "list"
      [] x.t = "dict" -> "dict"
      [] x.t = "float" -> "float"
      [] OTHER -> x.t

\* x.get(...) on a value that is no dict
NoGetAttribute(x) ==
    [cls |-> {"AttributeError"},
     msg |-> "'" \o TypeName(x) \o "' object has no attribute 'get'"]

NoException == [cls |-> {}, msg |-> ""]

\* a variant that tests for None alone, which a text input never yields
TokenMissingIsNone(session_token) == FALSE

\* if not session_token
TokenMissing(session_token) == session_token = ""

\* response.raise_for_status()
RaisesForStatus(code) == code >= 400 /\ code < 600

HTTPErrorMessage(o) ==
    NatToStr(o.code)
    \o (IF o.code < 500 THEN " Client Error: " ELSE " Server Error: ")
    \o o.reason \o " for url: " \o URL

\* a variant that accepts the integer alone
StatusOkIntOnly(status) == status.t = "int" /\ status.v = 200

\* status in [200, "200"]
StatusOk(status) == PyEqInt(status, 200) \/ PyEqStr(status, "200")

\* result.get("Error", "Unknown API error")
ErrorMessage(result) == DictGet(result, "Error", PyStr("Unknown API error"))

\* a variant that tests for None alone
PayloadEmptyIsNone(market_data) == market_data.t = "none"

\* not market_data
PayloadEmpty(market_data) == ~Truthy(market_data)

Returned(ret, errs, widgets, kind) ==
    [ret |-> ret, errors |-> errs, shown |-> widgets, exc |-> NoException,
     kind |-> kind]

Raised(e) ==
    [ret |-> PyNone, errors |-> <<>>, shown |-> <<>>, exc |-> e,
     kind |-> "raised"]

\* the envelope checks once the body is decoded
Interpret(result) ==
    IF result.t # "dict" THEN Raised(NoGetAttribute(result))
    ELSE IF ~StatusOk(DictGet(result, "Status", PyNone))
    THEN Returned(PyNone,
                  <<CROSS \o "API Error: " \o PyToStr(ErrorMessage(result))>>,
                  <<[w |-> "json", label |-> "", value |-> result]>>,
                  "api_error")
    ELSE IF PayloadEmpty(DictGet(result, "Success", PyNone))
    THEN Returned(PyNone, <<CROSS \o "No market data returned from API.">>,
                  <<>>, "empty")
    ELSE Returned(DictGet(result, "Success", PyNone), <<>>, <<>>, "ok")

\* the body of the try block
TryBlock(o, build) ==
    IF o.kind # "response"
    THEN Raised([cls |-> TransportClasses(o.kind), msg |-> o.exc])
    ELSE IF RaisesForStatus(o.code)
    THEN Raised([cls |-> HTTPErrorClasses, msg |-> HTTPErrorMessage(o)])
    ELSE IF ParseJSON(o.body).t = "invalid"
    THEN Raised([cls |-> JSONDecodeErrorClasses(build),
                 msg |-> "Expecting value: line 1 column 1 (char 0)"])
    ELSE Interpret(ParseJSON(o.body))

\* the except clauses, tried in the order written; 'response' in locals()
\* holds exactly when requests.get returned
ExceptClauses(r, o) ==
    IF r.exc.cls = {} THEN r
    ELSE IF "HTTPError" \in r.exc.cls
    THEN Returned(PyNone,
                  <<CROSS \o "HTTP Error: " \o r.exc.msg>>
                  \o (IF o.kind = "response"
                      THEN <<"Status Code: " \o NatToStr(o.code),
                             "Response: " \o o.body>>
                      ELSE <<>>),
                  <<>>, "http_error")
    ELSE IF "RequestException" \in r.exc.cls
    THEN Returned(PyNone, <<CROSS \o "Failed to fetch data: " \o r.exc.msg>>,
                  <<>>, "request_exception")
    ELSE IF "JSONDecodeError" \in r.exc.cls
    THEN Returned(PyNone,
                  <<CROSS \o "Failed to parse JSON response: " \o r.exc.msg>>
                  \o (IF o.kind = "response"
                      THEN <<"Raw response: " \o o.body>>
                      ELSE <<>>),
                  <<>>, "json_decode")
    ELSE r

\* requests.get(url, headers=headers, data=payload, timeout=10): the request
\* put on the wire
GetRequest(headers, payload) ==
    [method |-> "GET", url |-> URL, headers |-> headers, data |-> payload]

\* fetch_market_data_icici: the value returned, the messages shown, and the
\* clock readings, timestamps, digests and HTTP requests it made
\* (the last three parameters: the clock reading, what requests.get does,
\* the installed requests)
fetch_market_data_icici(symbol, exch, session_token, api_key, api_secret, now, o, build) ==
    IF TokenMissing(session_token)
    THEN [res |-> Returned(PyNone,
                           <<CROSS \o "Session token is required! Please paste it above.">>,
                           <<>>, "missing_token"),
          clock |-> <<>>, ts |-> "", sums |-> <<>>, reqs |-> <<>>]
    ELSE LET payload == Payload(symbol, exch)
             ts == FormatTimestamp(now)
             checksum == generate_checksum(ts, payload, api_secret)
             headers == Headers(checksum, ts, api_key, session_token)
         IN [res |-> ExceptClauses(TryBlock(o, build), o),
             clock |-> <<now>>,
             ts |-> ts,
             sums |-> <<checksum>>,
             reqs |-> <<GetRequest(headers, payload)>>]

----------------------------------------------------------------------------
(* Rendering of the selected view, and ask_llm *)

\* a variant that never unwraps the list
FirstOrSelfNoUnwrap(market_data) == market_data

\* market_data[0] if isinstance(market_data, list) and len(market_data) > 0
\* else market_data
FirstOrSelf(market_data) ==
    IF market_data.t = "list" /\ Len(market_data.v) > 0
    THEN market_data.v[1]
    ELSE market_data

Metric(label, value) == [w |-> "metric", label |-> label, value |-> value]

\* data_type == "LTP"
LtpView(market_data) ==
    IF FirstOrSelf(market_data).t # "dict"
    THEN [widgets |-> <<>>, exc |-> NoGetAttribute(FirstOrSelf(market_data))]
    ELSE [widgets |->
            <<Metric("Last Traded Price",
                     PyStr(RUPEE \o PyToStr(DictGet(FirstOrSelf(market_data),
                                                    "ltp", PyStr("N/A")))))>>,
          exc |-> NoException]

\* f"{volume:,}" if isinstance(volume, (int, float)) else volume
VolumeValue(volume) ==
    IF IsNumber(volume) THEN PyStr(PyFormatComma(volume)) ELSE volume

\* data_type == "Volume"
VolumeView(market_data) ==
    IF FirstOrSelf(market_data).t # "dict"
    THEN [widgets |-> <<>>, exc |-> NoGetAttribute(FirstOrSelf(market_data))]
    ELSE [widgets |->
            <<Metric("Volume",
                     VolumeValue(DictGet(FirstOrSelf(market_data),
                                         "total_quantity_traded",
                                         PyStr("N/A"))))>>,
          exc |-> NoException]

\* column of the OHLC table -> key of the record
OhlcKey ==
    [c \in {"Open", "High", "Low", "Close", "Previous Close"} |->
        CASE c = "Open" -> "open"
          [] c = "High" -> "high"
          [] c = "Low" -> "low"
          [] c = "Close" -> "close"
          [] c = "Previous Close" -> "previous_close"]

\* the ohlc dict: data.get(key) is None when the key is missing
Ohlc(data) == [c \in DOMAIN OhlcKey |-> DictGet(data, OhlcKey[c], PyNone)]

\* data_type == "OHLC"
OhlcView(market_data) ==
    IF FirstOrSelf(market_data).t # "dict"
    THEN [widgets |-> <<>>, exc |-> NoGetAttribute(FirstOrSelf(market_data))]
    ELSE [widgets |->
            <<[w |-> "dataframe", label |-> "",
               value |-> PyDict(Ohlc(FirstOrSelf(market_data)))],
              [w |-> "info", label |-> "",
               value |-> PyStr(INFO \o "Note: Shows current day's OHLC. For historical data, use /historicaldata endpoint.")]>>,
          exc |-> NoException]

\* the if/elif chain on data_type
View(market_data, data_type) ==
    CASE data_type = "Raw JSON" ->
           [widgets |-> <<[w |-> "json", label |-> "", value |-> market_data]>>,
            exc |-> NoException]
      [] data_type = "LTP" -> LtpView(market_data)
      [] data_type = "Volume" -> VolumeView(market_data)
      [] data_type = "OHLC" -> OhlcView(market_data)

Subheader(text) == [w |-> "subheader", label |-> "", value |-> PyStr(text)]

\* a variant that renders and asks whatever the fetch returned
HasMarketDataAlways(market_data) == TRUE

\* if market_data: the condition under which the page is rendered and the
\* LLM is asked
HasMarketData(market_data) == Truthy(market_data)

OPENROUTER_MODEL == "moonshotai/kimi-k2:free"
LLM_URL == "https://openrouter.ai/api/v1/chat/completions"

\* what requests.post and the decoding of its answer can do: a completion
\* (possibly empty), a RequestException, or an answer without choices
LlmOutcomes ==
    {[kind |-> "content", text |-> "Trend: up. Hold."],
     [kind |-> "content", text |-> ""],
     [kind |-> "RequestException",
      text |-> "HTTPSConnectionPool(host='openrouter.ai', port=443): Read timed out. (read timeout=60)"],
     [kind |-> "KeyError", text |-> "'choices'"]}

\* ask_llm(market_data): the request posted, the value returned, the
\* message shown, the exception that escapes
ask_llm(market_data, o) ==
    [req |-> [method |-> "POST", url |-> LLM_URL, model |-> OPENROUTER_MODEL,
              market_data |-> market_data],
     ret |-> IF o.kind = "content" THEN PyStr(o.text) ELSE PyNone,
     errors |-> IF o.kind = "RequestException"
                THEN <<CROSS \o "Failed to fetch AI insight: " \o o.text>>
                ELSE <<>>,
     exc |-> IF o.kind = "KeyError"
             THEN [cls |-> {"KeyError"}, msg |-> o.text]
             ELSE NoException]

----------------------------------------------------------------------------
(* The script run *)

Clock(y, mo, d, h, mi, sec, us) ==
    [year |-> y, month |-> mo, day |-> d, hour |-> h, minute |-> mi,
     second |-> sec, microsecond |-> us]

\* clock readings the script run may see
NowSamples ==
    {Clock(2024, 3, 5, 10, 7, 22, 843000), Clock(2024, 12, 31, 23, 59, 59, 0)}

SessionTokens == {"", "4a6f1c"}
ApiKeys == {"appkey-A"}
ApiSecrets == {"secret-1", "secret-2"}

\* requests.get has not been called
NoOutcome ==
    [kind |-> "none", code |-> 0, reason |-> "", body |-> "", exc |-> ""]

\* what one run of the script has put on the page
Cleared ==
    /\ clockReads' = <<>>
    /\ checksums' = <<>>
    /\ httpRequests' = <<>>
    /\ outcome' = NoOutcome
    /\ fetchKind' = "none"
    /\ marketData' = PyNone
    /\ errors' = <<>>
    /\ shown' = <<>>
    /\ raised' = ""
    /\ llmRequests' = <<>>
    /\ insight' = PyNone
    /\ timestamp' = ""

Init ==
    /\ apiKey \in ApiKeys
    /\ apiSecret \in ApiSecrets
    /\ jsonErrIsReqExc \in BOOLEAN
    /\ pc = "idle"
    /\ sessionToken = ""
    /\ stock = "RELIANCE"
    /\ exchange = "NSE"
    /\ dataType = "LTP"
    /\ clockReads = <<>>
    /\ checksums = <<>>
    /\ httpRequests = <<>>
    /\ outcome = NoOutcome
    /\ fetchKind = "none"
    /\ marketData = PyNone
    /\ errors = <<>>
    /\ shown = <<>>
    /\ raised = ""
    /\ llmRequests = <<>>
    /\ insight = PyNone
    /\ timestamp = ""

\* a widget keeps its value across reruns; every other name of the script
\* is rebound by the run
Widgets == <<sessionToken, stock, exchange, dataType>>
Secrets == <<apiKey, apiSecret, jsonErrIsReqExc>>

\* the user edits one widget; the script reruns with analyze = False and
\* renders the widgets alone
EditToken(token) ==
    /\ pc = "idle"
    /\ sessionToken' = token
    /\ UNCHANGED <<stock, exchange, dataType, pc, clockReads, checksums,
                   httpRequests, outcome, fetchKind, marketData, errors, shown, raised,
                   llmRequests, insight, timestamp, Secrets>>

SelectStock(s) ==
    /\ pc = "idle"
    /\ stock' = s
    /\ UNCHANGED <<sessionToken, exchange, dataType, pc, clockReads, checksums,
                   httpRequests, outcome, fetchKind, marketData, errors, shown, raised,
                   llmRequests, insight, timestamp, Secrets>>

SelectExchange(e) ==
    /\ pc = "idle"
    /\ exchange' = e
    /\ UNCHANGED <<sessionToken, stock, dataType, pc, clockReads, checksums,
                   httpRequests, outcome, fetchKind, marketData, errors, shown, raised,
                   llmRequests, insight, timestamp, Secrets>>

SelectDataType(d) ==
    /\ pc = "idle"
    /\ dataType' = d
    /\ UNCHANGED <<sessionToken, stock, exchange, pc, clockReads, checksums,
                   httpRequests, outcome, fetchKind, marketData, errors, shown, raised,
                   llmRequests, insight, timestamp, Secrets>>

\* a run has ended (or died on an uncaught exception) and the next
\* interaction reruns the script from the top with analyze = False: the
\* page of the last run is replaced by the widgets alone
Rerun ==
    /\ pc \in {"done", "crashed"}
    /\ pc' = "idle"
    /\ Cleared
    /\ UNCHANGED <<Widgets, Secrets>>

\* the user presses Analyze Market; the script reruns with analyze = True
Analyze ==
    /\ pc = "idle"
    /\ pc' = "fetch"
    /\ Cleared
    /\ UNCHANGED <<Widgets, Secrets>>

\* market_data = fetch_market_data_icici(...)
Fetch(now, o) ==
    /\ pc = "fetch"
    /\ LET f == fetch_market_data_icici(StockCode(stock), exchange,
                                        sessionToken, apiKey, apiSecret, now,
                                        o, jsonErrIsReqExc)
       IN /\ clockReads' = f.clock
          /\ checksums' = f.sums
          /\ httpRequests' = f.reqs
          /\ outcome' = IF f.reqs = <<>> THEN NoOutcome ELSE o
          /\ fetchKind' = f.res.kind
          /\ marketData' = f.res.ret
          /\ errors' = f.res.errors
          /\ shown' = f.res.shown
          /\ raised' = IF f.res.exc.cls = {} THEN ""
                       ELSE CHOOSE c \in f.res.exc.cls : TRUE
          /\ pc' = IF f.res.exc.cls # {} THEN "crashed" ELSE "fetched"
          /\ timestamp' = f.ts
    /\ UNCHANGED <<Widgets, Secrets, llmRequests, insight>>

\* if market_data: is false; the run ends with the messages of the fetch
SkipOnFailure ==
    /\ pc = "fetched"
    /\ ~HasMarketData(marketData)
    /\ pc' = "done"
    /\ UNCHANGED <<Widgets, Secrets, clockReads, checksums, httpRequests,
                   outcome, fetchKind, marketData, errors, shown, raised, llmRequests,
                   insight, timestamp>>

\* if market_data: the subheader and the view selected by data_type
Render ==
    /\ pc = "fetched"
    /\ HasMarketData(marketData)
    /\ LET v == View(marketData, dataType)
       IN /\ shown' = shown
                      \o <<Subheader(CHART \o "Market Data for " \o stock \o " ("
                                     \o exchange \o ")")>>
                      \o v.widgets
          /\ raised' = IF v.exc.cls = {} THEN ""
                       ELSE CHOOSE c \in v.exc.cls : TRUE
          /\ pc' = IF v.exc.cls = {} THEN "rendered" ELSE "crashed"
    /\ UNCHANGED <<Widgets, Secrets, clockReads, checksums, httpRequests,
                   outcome, fetchKind, marketData, errors, llmRequests, insight,
                   timestamp>>

\* insight = ask_llm(market_data), then the insight if there is one
AskInsight(o) ==
    /\ pc = "rendered"
    /\ LET a == ask_llm(marketData, o)
       IN /\ llmRequests' = Append(llmRequests, a.req)
          /\ insight' = a.ret
          /\ errors' = errors \o a.errors
          /\ raised' = IF a.exc.cls = {} THEN ""
                       ELSE CHOOSE c \in a.exc.cls : TRUE
          /\ pc' = IF a.exc.cls = {} THEN "done" ELSE "crashed"
          /\ shown' = IF a.exc.cls = {} /\ Truthy(a.ret)
                      THEN shown \o <<Subheader(ROBOT \o "AI Trading Insight"),
                                      [w |-> "markdown", label |-> "",
                                       value |-> a.ret]>>
                      ELSE shown
    /\ UNCHANGED <<Widgets, Secrets, clockReads, checksums, httpRequests,
                   outcome, fetchKind, marketData, timestamp>>

Next ==
    \/ \E token \in SessionTokens : EditToken(token)
    \/ \E s \in STOCKS : SelectStock(s)
    \/ \E e \in EXCHANGES : SelectExchange(e)
    \/ \E d \in DATA_TYPES : SelectDataType(d)
    \/ Rerun
    \/ Analyze
    \/ \E now \in NowSamples, o \in Outcomes : Fetch(now, o)
    \/ SkipOnFailure
    \/ Render
    \/ \E o \in LlmOutcomes : AskInsight(o)

Spec == Init /\ [][Next]_vars

----------------------------------------------------------------------------
(* The timestamp formatter alone, over a wide set of clock readings *)

ClockReadings ==
    {Clock(y, mo, d, h, mi, sec, us) :
        y \in {1, 999, 2024, 9999}, mo \in {1, 3, 12}, d \in {1, 5, 28},
        h \in {0, 10, 23}, mi \in {0, 7, 59}, sec \in {0, 22, 59},
        us \in {0, 1, 499999, 500000, 843000, 999999}}

InitClock ==
    /\ apiKey \in ApiKeys
    /\ apiSecret = "secret-1"
    /\ jsonErrIsReqExc = TRUE
    /\ pc = "clock"
    /\ sessionToken = ""
    /\ stock = "RELIANCE"
    /\ exchange = "NSE"
    /\ dataType = "LTP"
    /\ \E now \in ClockReadings : clockReads = <<now>>
    /\ checksums = <<>>
    /\ httpRequests = <<>>
    /\ outcome = NoOutcome
    /\ fetchKind = "none"
    /\ marketData = PyNone
    /\ errors = <<>>
    /\ shown = <<>>
    /\ raised = ""
    /\ llmRequests = <<>>
    /\ insight = PyNone
    /\ timestamp = ""

\* timestamp = datetime.utcnow().isoformat()[:19] + '.000Z' on the reading
StampClock ==
    /\ pc = "clock"
    /\ timestamp' = FormatTimestamp(clockReads[1])
    /\ pc' = "stamped"
    /\ UNCHANGED <<Widgets, Secrets, clockReads, checksums, httpRequests,
                   outcome, fetchKind, marketData, errors, shown, raised,
                   llmRequests, insight>>

NextClock == StampClock

SpecClock == InitClock /\ [][NextClock]_vars

----------------------------------------------------------------------------
(* Properties *)

\* the fetch of this run has returned or raised
Fetched == pc \in {"fetched", "rendered", "done", "crashed"}

MissingTokenMessage ==
    CROSS \o "Session token is required! Please paste it above."

\* C1: a fetch with an empty session token ends with the missing-credential
\* message and nothing else: it returns None, reads no clock, computes no
\* checksum and hands no request to requests.get.
C1_EmptyTokenShortCircuits ==
    (Fetched /\ sessionToken = "") =>
        /\ fetchKind = "missing_token"
        /\ marketData = PyNone
        /\ errors = <<MissingTokenMessage>>
        /\ clockReads = <<>>
        /\ checksums = <<>>
        /\ httpRequests = <<>>
        /\ outcome = NoOutcome

C1_Witness ==
    /\ pc = "done"
    /\ sessionToken = ""
    /\ fetchKind = "missing_token"
    /\ apiSecret = "secret-2"
    /\ stock = "TCS"
    /\ exchange = "BSE"

\* C2: every request sent carries X-Checksum = "token " followed by the
\* SHA-256 digest of the X-Timestamp value sent, then the body sent, then the
\* API secret, concatenated in that order with no separator.
C2_ChecksumCoversWhatIsSent ==
    \A i \in DOMAIN httpRequests :
        httpRequests[i].headers.XChecksum =
            "token " \o Sha256Hex(httpRequests[i].headers.XTimestamp
                                  \o httpRequests[i].data \o apiSecret)

C2_Witness ==
    /\ Len(httpRequests) = 1
    /\ httpRequests[1].headers.XTimestamp = "2024-03-05T10:07:22.000Z"
    /\ httpRequests[1].data = Payload("INFY", "NFO")
    /\ apiSecret = "secret-2"

\* the body the specification prescribes for a symbol and an exchange
CanonicalBody(symbol, exch) ==
    "{\"stock_code\":\"" \o symbol \o "\",\"exchange_code\":\"" \o exch
    \o "\",\"product_type\":\"cash\",\"right\":\"Others\",\"strike_price\":\"0\"}"

\* C3: the body sent is the compact JSON object with the five keys
\* stock_code, exchange_code, product_type, right, strike_price in that
\* order, the last three "cash", "Others" and "0", with no whitespace after
\* colons and commas.
C3_BodyIsCanonical ==
    \A i \in DOMAIN httpRequests :
        httpRequests[i].data = CanonicalBody(StockCode(stock), exchange)

\* digits of a decimal numeral, read back
RECURSIVE ParseNat(_)
ParseNat(str) ==
    IF str = "" THEN 0
    ELSE 10 * ParseNat(SubSeq(str, 1, Len(str) - 1))
         + (CHOOSE d \in 0..9 : Digit(d) = SubSeq(str, Len(str), Len(str)))

\* C9: the timestamp is the reading's UTC date and time to whole seconds,
\* YYYY-MM-DDTHH:MM:SS, followed by ".000Z": the seconds field is the
\* reading's second whatever its sub-second part, zero or not.
C9_TimestampTruncates ==
    (pc = "stamped") =>
        /\ Len(timestamp) = 24
        /\ SubSeq(timestamp, 20, 24) = ".000Z"
        /\ ParseNat(SubSeq(timestamp, 1, 4)) = clockReads[1].year
        /\ SubSeq(timestamp, 5, 5) = "-"
        /\ ParseNat(SubSeq(timestamp, 6, 7)) = clockReads[1].month
        /\ SubSeq(timestamp, 8, 8) = "-"
        /\ ParseNat(SubSeq(timestamp, 9, 10)) = clockReads[1].day
        /\ SubSeq(timestamp, 11, 11) = "T"
        /\ ParseNat(SubSeq(timestamp, 12, 13)) = clockReads[1].hour
        /\ SubSeq(timestamp, 14, 14) = ":"
        /\ ParseNat(SubSeq(timestamp, 15, 16)) = clockReads[1].minute
        /\ SubSeq(timestamp, 17, 17) = ":"
        /\ ParseNat(SubSeq(timestamp, 18, 19)) = clockReads[1].second

C9_Witness ==
    /\ pc = "stamped"
    /\ clockReads[1] = Clock(2024, 3, 5, 10, 7, 22, 843000)
    /\ timestamp = "2024-03-05T10:07:22.000Z"

\* requests.get returned a response that raise_for_status lets through with
\* a 2xx code and whose body decodes to a JSON object
Got2xxEnvelope ==
    /\ outcome.kind = "response"
    /\ outcome.code \in 200..299
    /\ ParseJSON(outcome.body).t = "dict"

\* the envelope's field, None when it is absent
EnvelopeField(name) == DictGet(ParseJSON(outcome.body), name, PyNone)
EnvelopeHas(name) == name \in DOMAIN ParseJSON(outcome.body).v

IsInt200OrStr200(st) ==
    \/ st.t = "int" /\ st.v = 200
    \/ st.t = "str" /\ st.v = "200"

\* 200 as Python compares numbers: the integer 200 or the float 200.0
IsNumber200OrStr200(st) ==
    \/ st.t = "int" /\ st.v = 200
    \/ st.t = "float" /\ st.whole = 200 /\ st.tenths = 0
    \/ st.t = "str" /\ st.v = "200"

\* the application error shown with the given default message
ApplicationErrorShown(default) ==
    /\ fetchKind = "api_error"
    /\ marketData = PyNone
    /\ errors[1] = CROSS \o "API Error: "
                   \o (IF EnvelopeHas("Error")
                       THEN EnvelopeField("Error").v ELSE default)

\* C4 as stated: Status counts as success exactly when it is the integer
\* 200 or the string "200"; otherwise the fetch fails with the envelope's
\* Error field, or "unknown" when there is none.
C4_StatusAsStated ==
    (Fetched /\ Got2xxEnvelope) =>
        IF IsInt200OrStr200(EnvelopeField("Status"))
        THEN fetchKind \in {"ok", "empty"}
        ELSE ApplicationErrorShown("unknown")

\* C4 as amended: Status counts as success exactly when it equals the number
\* 200 (integer 200 or float 200.0) or is the string "200"; otherwise the
\* fetch returns no market data and shows "API Error: " followed by the
\* envelope's Error field verbatim, or by "Unknown API error" when the
\* envelope has no Error field.
C4_StatusDiscriminates ==
    (Fetched /\ Got2xxEnvelope) =>
        IF IsNumber200OrStr200(EnvelopeField("Status"))
        THEN fetchKind \in {"ok", "empty"}
        ELSE ApplicationErrorShown("Unknown API error")

C4_Witness ==
    /\ pc = "done"
    /\ outcome.body = BodyStatusOnly
    /\ errors = <<CROSS \o "API Error: Unknown API error">>
    /\ marketData = PyNone

\* C5: whatever the transport did and whatever the response holds, the fetch
\* returns (a payload or None): no exception leaves it.
C5_NoExceptionEscapesFetch == fetchKind # "raised"

\* C8: a 2xx envelope whose Status is 200 or "200" and whose Success is
\* absent, null, an empty list or an empty object ends in the empty-payload
\* failure: the message is shown, None is returned, nothing is rendered and
\* the LLM is not asked.
C8_EmptyPayloadFails ==
    (Fetched /\ Got2xxEnvelope /\ IsInt200OrStr200(EnvelopeField("Status"))
     /\ (\/ ~EnvelopeHas("Success")
         \/ EnvelopeField("Success") \in {PyNone, PyList(<<>>), EmptyDict})) =>
        /\ fetchKind = "empty"
        /\ marketData = PyNone
        /\ errors = <<CROSS \o "No market data returned from API.">>
        /\ shown = <<>>
        /\ llmRequests = <<>>
        /\ pc \in {"fetched", "done"}

C8_Witness ==
    /\ pc = "done"
    /\ outcome.body = BodySuccessEmptyDict
    /\ fetchKind = "empty"

\* C10: the LLM is asked only in a run whose fetch returned a non-empty
\* payload, with that payload, after the one quote request of the run; a run
\* issues at most one quote request and at most one LLM request.
C10_LlmOnlyAfterPayload ==
    /\ Len(httpRequests) <= 1
    /\ Len(llmRequests) <= 1
    /\ llmRequests # <<>> =>
        /\ fetchKind = "ok"
        /\ Truthy(marketData)
        /\ llmRequests[1].market_data = marketData
        /\ Len(httpRequests) = 1
        /\ pc \in {"done", "crashed"}
    /\ fetchKind \in {"missing_token", "request_exception", "http_error",
                      "json_decode", "api_error", "empty", "raised"} =>
        llmRequests = <<>>

C10_Witness ==
    /\ pc = "done"
    /\ Len(llmRequests) = 1
    /\ Len(httpRequests) = 1
    /\ insight = PyStr("Trend: up. Hold.")

\* the view of this run has been rendered, or rendering it has raised
RenderActed == fetchKind = "ok" /\ pc \in {"rendered", "done", "crashed"}

\* the payload is one quote record, as an object or as a one-element list
OneRecordPayload ==
    \/ marketData.t = "dict"
    \/ /\ marketData.t = "list"
       /\ Len(marketData.v) = 1
       /\ marketData.v[1].t = "dict"

\* that record
TheRecord == IF marketData.t = "list" THEN marketData.v[1] ELSE marketData

\* C6 as stated: for a payload that is one quote record, as an object or as
\* a one-element list, whatever the view selected, the list form shows what
\* the object form of the same record shows, and every field the record
\* lacks shows the one not-available sentinel 'N/A'.
C6_NormalizesAsStated ==
    (RenderActed /\ OneRecordPayload) =>
        /\ raised # "AttributeError"
        /\ SubSeq(shown, 2, 1 + Len(View(TheRecord, dataType).widgets))
             = View(TheRecord, dataType).widgets
        /\ (dataType = "LTP" /\ "ltp" \notin DOMAIN TheRecord.v) =>
             shown[2].value = PyStr(RUPEE \o "N/A")
        /\ (dataType = "Volume"
            /\ "total_quantity_traded" \notin DOMAIN TheRecord.v) =>
             shown[2].value = PyStr("N/A")
        /\ dataType = "OHLC" =>
             \A c \in DOMAIN OhlcKey :
                 OhlcKey[c] \notin DOMAIN TheRecord.v =>
                     shown[2].value.v[c] = PyStr("N/A")

\* C6 as amended: for a payload that is one quote record, as an object or as
\* a one-element list, the LTP, Volume and OHLC views show the record's
\* values without failing, the list form exactly as the object form of the
\* same record; a missing ltp or total_quantity_traded shows 'N/A' and a
\* missing open, high, low, close or previous_close shows None. The Raw
\* JSON view shows the payload as received: a list stays a list and no
\* sentinel is filled in.
C6_NormalizesRecord ==
    /\ (RenderActed /\ OneRecordPayload
        /\ dataType \in {"LTP", "Volume", "OHLC"}) =>
        /\ raised # "AttributeError"
        /\ Len(shown) >= 2
        /\ shown[1].w = "subheader"
        /\ dataType = "LTP" =>
             shown[2] = Metric("Last Traded Price",
                               PyStr(RUPEE \o (IF "ltp" \in DOMAIN TheRecord.v
                                               THEN PyToStr(TheRecord.v.ltp)
                                               ELSE "N/A")))
        /\ (dataType = "Volume"
            /\ "total_quantity_traded" \notin DOMAIN TheRecord.v) =>
             shown[2] = Metric("Volume", PyStr("N/A"))
        /\ dataType = "OHLC" =>
             /\ shown[2].w = "dataframe"
             /\ \A c \in DOMAIN OhlcKey :
                  shown[2].value.v[c] =
                      IF OhlcKey[c] \in DOMAIN TheRecord.v
                      THEN TheRecord.v[OhlcKey[c]] ELSE PyNone
        /\ SubSeq(shown, 2, 1 + Len(View(TheRecord, dataType).widgets))
             = View(TheRecord, dataType).widgets
    /\ (RenderActed /\ OneRecordPayload /\ dataType = "Raw JSON") =>
        /\ raised # "AttributeError"
        /\ Len(shown) >= 2
        /\ shown[2] = [w |-> "json", label |-> "", value |-> marketData]

C6_Witness ==
    /\ pc = "rendered"
    /\ dataType = "OHLC"
    /\ marketData = PyList(<<RecordPartial>>)
    /\ shown[2].value.v["Open"] = PyInt(2490)
    /\ shown[2].value.v["High"] = PyNone

\* s.startswith(prefix)
StartsWith(str, prefix) ==
    Len(str) >= Len(prefix) /\ SubSeq(str, 1, Len(prefix)) = prefix

\* the failure kind of this run's fetch, read off its inputs in the order of
\* the specification's outcome list ("none": the fetch has a payload)
FailureKind ==
    IF sessionToken = "" THEN "credential"
    ELSE IF outcome.kind \in {"ReadTimeout", "ConnectionError"}
    THEN "transport"
    ELSE IF outcome.code \notin 200..299 THEN "http"
    ELSE IF ParseJSON(outcome.body).t = "invalid" THEN "decode"
    ELSE IF \/ ParseJSON(outcome.body).t # "dict"
            \/ ~IsNumber200OrStr200(EnvelopeField("Status"))
    THEN "application"
    ELSE IF ~Truthy(EnvelopeField("Success")) THEN "empty"
    ELSE "none"

\* the message the script words for each kind
KindLabel(kind) ==
    CASE kind = "credential" -> "Session token is required!"
      [] kind = "transport" -> "Failed to fetch data:"
      [] kind = "http" -> "HTTP Error:"
      [] kind = "decode" -> "Failed to parse JSON response:"
      [] kind = "application" -> "API Error:"
      [] kind = "empty" -> "No market data returned from API."

\* C7: every failed fetch shows a message, and the message is the one worded
\* for its kind, so that no two of the six kinds show the same message.
C7_MessageTellsKind ==
    (Fetched /\ FailureKind # "none") =>
        /\ errors # <<>>
        /\ StartsWith(errors[1], CROSS \o KindLabel(FailureKind))

====
